---- MODULE Spec2Model ----
(***************************************************************************)
(* fetch_pr_comments.py: the aggregation of a pull request's comments.    *)
(*                                                                         *)
(* main parses the command line, fetch_pr_comments issues four fetches    *)
(* through the gh CLI (PR metadata, the GraphQL reviewThreads walk, the   *)
(* inline comments, the issue comments), assembles the inline comments    *)
(* into top-level comments with nested replies, and main prints one JSON  *)
(* document.  Nothing catches an exception: a failing step ends the       *)
(* process.                                                                *)
(*                                                                         *)
(* JSON values.  null/None is Null.  A JSON object is a record with       *)
(* kind = "object"; a JSON array met where the code expects an object is  *)
(* a record with kind = "array".  Strings that are only copied (author,   *)
(* path, diff_hunk, title) are fixed; body carries a number so that a     *)
(* record can be followed through the assembly.                           *)
(*                                                                         *)
(* Command-line strings are sequences of tokens: "H" is the literal       *)
(* "https://github.com/", "p" the word "pull", "/" a slash, "a" a letter, *)
(* "4" a digit.                                                            *)
(***************************************************************************)
EXTENDS Integers, Sequences, FiniteSets, TLC

VARIABLES
    pc,              \* position in main / fetch_pr_comments
    args,            \* sys.argv[1:]
    repo, number,    \* result of parse_pr_ref
    transport,       \* which executable answers to `gh` (see RunGhPaginated)
    calls,           \* the gh invocations issued so far, in order
    failed_at,       \* index in calls of the invocation that exited non-zero, or Null
    exc,             \* the exception that ended the process, "" if none
    exit_code,       \* the process's exit status, Null while running
    stdout,          \* the documents main has printed
    thread_pages,    \* server: the reviewThreads pages of the PR
    cursor,          \* fetch_resolved_thread_ids: cursor
    resolved,        \* fetch_resolved_thread_ids: resolved
    resolved_ids,    \* fetch_pr_comments: resolved_ids
    review_pages,    \* server: the pages of pulls/N/comments
    raw_review,      \* fetch_pr_comments: raw_review
    review_comments, \* fetch_pr_comments: review_comments
    issue_pages,     \* server: the pages of issues/N/comments
    raw_issue        \* fetch_pr_comments: raw_issue

vars == <<pc, args, repo, number, transport, calls, failed_at, exc, exit_code,
          stdout, thread_pages, cursor, resolved, resolved_ids, review_pages,
          raw_review, review_comments, issue_pages, raw_issue>>

Null == -1

(***************************************************************************)
(* Bounds of the model.                                                    *)
(***************************************************************************)
MaxId == 2
MaxLen == 3
MaxFlagLen == 2
MaxPages == 3
MaxPerPage == 2
MaxThreadPages == 2
MaxThreads == 1

(***************************************************************************)
(* Sequence helpers.                                                       *)
(***************************************************************************)
RECURSIVE Flatten(_)
Flatten(pages) ==
    IF pages = <<>> THEN <<>> ELSE Head(pages) \o Flatten(Tail(pages))

SeqsUpTo(S, n) == UNION {[1..k -> S] : k \in 0..n}

RemoveAt(s, k) == SubSeq(s, 1, k - 1) \o SubSeq(s, k + 1, Len(s))

(***************************************************************************)
(* Python semantics used by the code.                                      *)
(***************************************************************************)
\* bool(x) for x an int or None
Truthy(x) == x \notin {Null, 0}

\* a or b
PyOr(a, b) == IF Truthy(a) THEN a ELSE b

\* dict: insertion-ordered; a sequence of [key, val] in first-insertion order
DictHas(d, k) == \E i \in 1..Len(d) : d[i].key = k

DictGet(d, k, default) ==
    IF DictHas(d, k)
    THEN d[CHOOSE i \in 1..Len(d) : d[i].key = k].val
    ELSE default

\* d[k] = v that always adds an entry
DictSetDup(d, k, v) == Append(d, [key |-> k, val |-> v])

\* d[k] = v : an existing key keeps its place, a new key goes last
DictSet(d, k, v) ==
    IF DictHas(d, k)
    THEN [i \in 1..Len(d) |-> IF d[i].key = k THEN [key |-> k, val |-> v] ELSE d[i]]
    ELSE Append(d, [key |-> k, val |-> v])

\* d.setdefault(k, v) : the dict afterwards
SetDefault(d, k, v) == IF DictHas(d, k) THEN d ELSE DictSet(d, k, v)

(***************************************************************************)
(* parse_pr_ref and the conversions applied to its result.                 *)
(***************************************************************************)
RECURSIVE NonSlashEnd(_, _)
NonSlashEnd(s, i) ==
    IF i <= Len(s) /\ s[i] # "/" THEN NonSlashEnd(s, i + 1) ELSE i

RECURSIVE DigitEnd(_, _)
DigitEnd(s, i) ==
    IF i <= Len(s) /\ s[i] = "4" THEN DigitEnd(s, i + 1) ELSE i

\* re.match(r"https://github\.com/([^/]+/[^/]+)/pull/(\d+)", url)
UrlMatch(s) ==
    LET b == NonSlashEnd(s, 2)
        c == NonSlashEnd(s, b + 1)
        d == DigitEnd(s, c + 3)
    IN  IF /\ Len(s) >= 1
           /\ s[1] = "H"
           /\ b > 2
           /\ b <= Len(s)
           /\ c > b + 1
           /\ c + 2 <= Len(s)
           /\ s[c + 1] = "p"
           /\ s[c + 2] = "/"
           /\ d > c + 3
        THEN [ok |-> TRUE, repo |-> SubSeq(s, 2, c - 1), number |-> SubSeq(s, c + 3, d - 1)]
        ELSE [ok |-> FALSE, repo |-> <<>>, number |-> <<>>]

\* repo.split("/", 1) unpacks into two names iff repo holds a slash
HasSlash(s) == \E i \in 1..Len(s) : s[i] = "/"

\* int(number) succeeds
IsInt(s) == Len(s) > 0 /\ \A i \in 1..Len(s) : s[i] = "4"

(***************************************************************************)
(* fetch_resolved_thread_ids.                                              *)
(***************************************************************************)
\* one thread of the loop over threads["nodes"], ignoring isResolved
AddResolvedAny(res, thread) ==
    IF thread.comments # <<>> THEN res \cup {thread.comments[1]} ELSE res

\* one thread of the loop over threads["nodes"]
AddResolved(res, thread) ==
    IF thread.isResolved
    THEN IF thread.comments # <<>> THEN res \cup {thread.comments[1]} ELSE res
    ELSE res

RECURSIVE AddResolvedNodes(_, _, _)
AddResolvedNodes(res, nodes, n) ==
    IF n = 0 THEN res ELSE AddResolved(AddResolvedNodes(res, nodes, n - 1), nodes[n])

\* the server's answer to the query with `after: cur`
ServerThreadsPage(cur) ==
    IF cur = Null
    THEN thread_pages[1]
    ELSE thread_pages[(CHOOSE k \in 1..Len(thread_pages) : thread_pages[k].endCursor = cur) + 1]

(***************************************************************************)
(* The comment tree assembly of fetch_pr_comments.                         *)
(***************************************************************************)
MakeReply(c) == [id |-> c.id, author |-> c.user, body |-> c.body]

\* replies.setdefault(parent_id, []).append({...}), inserting at the front
AddReplyFront(replies, c) ==
    LET r == SetDefault(replies, c.in_reply_to_id, <<>>)
    IN  DictSet(r, c.in_reply_to_id, <<MakeReply(c)>> \o DictGet(r, c.in_reply_to_id, <<>>))

\* replies.setdefault(parent_id, []).append({...})
AddReply(replies, c) ==
    LET r == SetDefault(replies, c.in_reply_to_id, <<>>)
    IN  DictSet(r, c.in_reply_to_id, Append(DictGet(r, c.in_reply_to_id, <<>>), MakeReply(c)))

EmptyPartition == [top_level |-> <<>>, replies |-> <<>>, err |-> ""]

\* one iteration in which a reply whose parent is not yet known is kept as a
\* top-level comment
PartitionStepPromote(st, c) ==
    IF st.err # "" THEN st
    ELSE IF c.kind # "object" THEN [st EXCEPT !.err = "AttributeError"]
    ELSE IF c.in_reply_to_id = Null \/ ~DictHas(st.top_level, c.in_reply_to_id)
    THEN [top_level |-> DictSet(st.top_level, c.id, c),
          replies |-> SetDefault(st.replies, c.id, <<>>),
          err |-> ""]
    ELSE [top_level |-> st.top_level, replies |-> AddReply(st.replies, c), err |-> ""]

\* one iteration of `for c in raw_review`; c.get on a list raises AttributeError
PartitionStep(st, c) ==
    IF st.err # "" THEN st
    ELSE IF c.kind # "object" THEN [st EXCEPT !.err = "AttributeError"]
    ELSE IF c.in_reply_to_id = Null
    THEN [top_level |-> DictSet(st.top_level, c.id, c),
          replies |-> SetDefault(st.replies, c.id, <<>>),
          err |-> ""]
    ELSE [top_level |-> st.top_level, replies |-> AddReply(st.replies, c), err |-> ""]

RECURSIVE Partition(_, _)
Partition(raw, n) ==
    IF n = 0 THEN EmptyPartition ELSE PartitionStep(Partition(raw, n - 1), raw[n])

\* c.get("line"), without the fallback
LineNoFallback(c) == c.line

\* c.get("line") or c.get("original_line")
LineOf(c) == PyOr(c.line, c.original_line)

\* outdated read off the line instead of the position
OutdatedByLine(c) == c.line = Null

\* c.get("position") is None
Outdated(c) == c.position = Null

\* a membership test that never succeeds
ResolvedNever(c, ids) == FALSE

\* c["id"] in resolved_ids
Resolved(c, ids) == c.id \in ids

ReviewComment(c, replies, ids) ==
    [id |-> c.id,
     author |-> c.user,
     path |-> c.path,
     line |-> LineOf(c),
     body |-> c.body,
     diff_hunk |-> c.diff_hunk,
     outdated |-> Outdated(c),
     resolved |-> Resolved(c, ids),
     replies |-> DictGet(replies, c.id, <<>>)]

\* the comprehension over top_level.values()
ReviewComments(st, ids) ==
    [i \in 1..Len(st.top_level) |-> ReviewComment(st.top_level[i].val, st.replies, ids)]

IssueComment(c) == [id |-> c.id, author |-> c.user, body |-> c.body]

(***************************************************************************)
(* The transport.  run_gh returns json.loads of what the executable `gh`  *)
(* prints.  With "--paginate --slurp" the GitHub CLI prints one outer      *)
(* array that holds one array per page (transport "gh").  Transport       *)
(* "merged" stands for an executable or a stub of run_gh that hands back  *)
(* the pages merged into one array of records, which is what the loops    *)
(* over raw_review and raw_issue are written for.  The server always      *)
(* answers with at least one page; the page of an empty listing is empty. *)
(***************************************************************************)
Slurped(pages) == [p \in 1..Len(pages) |-> [kind |-> "array", items |-> pages[p]]]

RunGhPaginated(pages) ==
    IF transport = "gh" THEN Slurped(pages) ELSE Flatten(pages)

PrData == [title |-> "t", url |-> "u", body |-> "b"]

Call(api, cur) == [api |-> api, cursor |-> cur]

(***************************************************************************)
(* Inputs.                                                                 *)
(***************************************************************************)
MkComment(id, parent, pos, line, orig, body) ==
    [kind |-> "object", id |-> id, in_reply_to_id |-> parent, user |-> "u",
     path |-> "f", line |-> line, original_line |-> orig, body |-> body,
     diff_hunk |-> "h", position |-> pos]

MkIssue(n) == [kind |-> "object", id |-> n, user |-> "u", body |-> n]

MkThread(isResolved, comments) == [isResolved |-> isResolved, comments |-> comments]

MkPage(nodes, more, endCursor) ==
    [nodes |-> nodes, hasNextPage |-> more, endCursor |-> endCursor]

\* inline comments that differ in id and parent (no comment replies to itself);
\* the k-th record has body k
TreeInputs ==
    {[k \in 1..Len(f) |-> MkComment(f[k].id, f[k].parent, 1, 10, 10, k)] :
        f \in SeqsUpTo({s \in [id : 1..MaxId, parent : {Null} \cup (1..MaxId)] :
                            s.id # s.parent}, MaxLen)}

\* top-level inline comments that differ in id, position, line and original_line
FlagInputs ==
    {[k \in 1..Len(f) |-> MkComment(f[k].id, Null, f[k].position, f[k].line,
                                    f[k].original_line, k)] :
        f \in SeqsUpTo([id : 1..MaxId, position : {Null, 1}, line : {Null, 10},
                        original_line : {Null, 42}], MaxFlagLen)}

\* reviewThreads pages: each thread has its own first comment, the last page
\* has no next page, page k ends at cursor k
ThreadInputs ==
    LET Shapes == [isResolved : BOOLEAN, has : BOOLEAN]
        PageShapes == [nodes : SeqsUpTo(Shapes, MaxThreads), more : BOOLEAN]
        Build(f) ==
            [p \in 1..Len(f) |->
                MkPage([j \in 1..Len(f[p].nodes) |->
                           MkThread(f[p].nodes[j].isResolved,
                                    IF f[p].nodes[j].has
                                    THEN <<(p - 1) * MaxThreads + j>>
                                    ELSE <<>>)],
                       f[p].more, p)]
    IN  {Build(f) : f \in {g \in UNION {[1..n -> PageShapes] : n \in 1..MaxThreadPages} :
                              ~g[Len(g)].more}}

RECURSIVE SumTo(_, _)
SumTo(sz, p) == IF p = 0 THEN 0 ELSE sz[p] + SumTo(sz, p - 1)

\* page sizes: one empty page, or up to MaxPages pages of 1..MaxPerPage records
Layouts == {<<0>>} \cup UNION {[1..n -> 1..MaxPerPage] : n \in 1..MaxPages}

\* the n-th inline comment of the stream cut into pages: odd n is a top-level
\* comment, even n a reply to n - 1
StreamComment(n) ==
    MkComment(n, IF n % 2 = 0 THEN n - 1 ELSE Null, 1, 10, 10, n)

ReviewPagesOf(sz) ==
    [p \in 1..Len(sz) |-> [j \in 1..sz[p] |-> StreamComment(SumTo(sz, p - 1) + j)]]

IssuePagesOf(sz) ==
    [p \in 1..Len(sz) |-> [j \in 1..sz[p] |-> MkIssue(SumTo(sz, p - 1) + j)]]

PipelineThreadPages ==
    {<<MkPage(<<MkThread(TRUE, <<1>>)>>, FALSE, 1)>>,
     <<MkPage(<<MkThread(FALSE, <<1>>)>>, TRUE, 1),
       MkPage(<<MkThread(TRUE, <<3>>), MkThread(TRUE, <<>>)>>, FALSE, 2)>>}

UrlOk == <<"H", "a", "/", "a", "/", "p", "/", "4">>
RepoOk == <<"a", "/", "a">>

ArgVectors ==
    {<<>>,
     <<UrlOk>>,
     <<UrlOk \o <<"a">> >>,
     <<<<"H", "a", "/", "p", "/", "4">> >>,
     <<RepoOk>>,
     <<RepoOk, <<"4">> >>,
     <<<<"a">>, <<"4">> >>,
     <<RepoOk, <<"a">> >>,
     <<RepoOk, <<"4">>, <<"4">> >>}

(***************************************************************************)
(* main and parse_pr_ref.                                                  *)
(***************************************************************************)
ParsePrRef(a) ==
    IF Len(a) = 1 THEN UrlMatch(a[1])
    ELSE IF Len(a) = 2 THEN [ok |-> TRUE, repo |-> a[1], number |-> a[2]]
    ELSE [ok |-> FALSE, repo |-> <<>>, number |-> <<>>]

\* an uncaught exception: traceback, exit status 1
Raise(e) == pc' = "raised" /\ exc' = e /\ exit_code' = 1

Main ==
    /\ pc = "main"
    /\ IF args # <<>> /\ ParsePrRef(args).ok
       THEN /\ pc' = "fetch_pr"
            /\ repo' = ParsePrRef(args).repo
            /\ number' = ParsePrRef(args).number
            /\ UNCHANGED <<exc, exit_code>>
       ELSE /\ pc' = "exited"
            /\ exc' = "SystemExit"
            /\ exit_code' = 1
            /\ UNCHANGED <<repo, number>>
    /\ UNCHANGED <<args, transport, calls, failed_at, stdout, thread_pages, cursor,
                   resolved, resolved_ids, review_pages, raw_review, review_comments,
                   issue_pages, raw_issue>>

(***************************************************************************)
(* fetch_pr_comments.                                                      *)
(***************************************************************************)
\* repo.split, the PR metadata fetch, int(number), the resolver's first lines
FetchPr ==
    /\ pc = "fetch_pr"
    /\ IF ~HasSlash(repo)
       THEN Raise("ValueError") /\ UNCHANGED <<calls, failed_at, cursor, resolved>>
       ELSE /\ calls' = Append(calls, Call("pulls", Null))
            /\ \E ok \in BOOLEAN :
                 IF ~ok
                 THEN /\ failed_at' = Len(calls) + 1
                      /\ Raise("CalledProcessError")
                      /\ UNCHANGED <<cursor, resolved>>
                 ELSE /\ UNCHANGED failed_at
                      /\ IF IsInt(number)
                         THEN /\ pc' = "threads"
                              /\ cursor' = Null
                              /\ resolved' = {}
                              /\ UNCHANGED <<exc, exit_code>>
                         ELSE Raise("ValueError") /\ UNCHANGED <<cursor, resolved>>
    /\ UNCHANGED <<args, repo, number, transport, stdout, thread_pages, resolved_ids,
                   review_pages, raw_review, review_comments, issue_pages, raw_issue>>

\* a failed GraphQL call answered with "nothing is resolved"
ThreadsCallFailedDegraded ==
    /\ pc' = "fetch_review"
    /\ resolved_ids' = {}
    /\ UNCHANGED <<exc, exit_code, cursor, resolved>>

\* subprocess.run(..., check=True) raises on a non-zero exit
ThreadsCallFailed ==
    /\ Raise("CalledProcessError")
    /\ UNCHANGED <<cursor, resolved, resolved_ids>>

\* one iteration of the while loop of fetch_resolved_thread_ids
FetchThreadsPage ==
    /\ pc = "threads"
    /\ calls' = Append(calls, Call("graphql", cursor))
    /\ \E ok \in BOOLEAN :
         IF ~ok
         THEN failed_at' = Len(calls) + 1 /\ ThreadsCallFailed
         ELSE LET page == ServerThreadsPage(cursor)
                  res == AddResolvedNodes(resolved, page.nodes, Len(page.nodes))
              IN  /\ resolved' = res
                  /\ UNCHANGED <<failed_at, exc, exit_code>>
                  /\ IF page.hasNextPage
                     THEN cursor' = page.endCursor /\ UNCHANGED <<pc, resolved_ids>>
                     ELSE /\ pc' = "fetch_review"
                          /\ resolved_ids' = res
                          /\ UNCHANGED cursor
    /\ UNCHANGED <<args, repo, number, transport, stdout, thread_pages, review_pages,
                   raw_review, review_comments, issue_pages, raw_issue>>

\* raw_review = run_gh([... "--paginate", "--slurp"])
FetchReview ==
    /\ pc = "fetch_review"
    /\ calls' = Append(calls, Call("comments", Null))
    /\ \E ok \in BOOLEAN :
         IF ~ok
         THEN /\ failed_at' = Len(calls) + 1
              /\ Raise("CalledProcessError")
              /\ UNCHANGED raw_review
         ELSE /\ raw_review' = RunGhPaginated(review_pages)
              /\ pc' = "assemble"
              /\ UNCHANGED <<failed_at, exc, exit_code>>
    /\ UNCHANGED <<args, repo, number, transport, stdout, thread_pages, cursor, resolved,
                   resolved_ids, review_pages, review_comments, issue_pages, raw_issue>>

\* the loop over raw_review and the comprehension over top_level
AssembleReview ==
    /\ pc = "assemble"
    /\ LET st == Partition(raw_review, Len(raw_review))
       IN  IF st.err = ""
           THEN /\ review_comments' = ReviewComments(st, resolved_ids)
                /\ pc' = "fetch_issue"
                /\ UNCHANGED <<exc, exit_code>>
           ELSE Raise(st.err) /\ UNCHANGED review_comments
    /\ UNCHANGED <<args, repo, number, transport, calls, failed_at, stdout, thread_pages,
                   cursor, resolved, resolved_ids, review_pages, raw_review, issue_pages,
                   raw_issue>>

\* the issue-comment fetch, its projection, the return and main's print
FetchIssue ==
    /\ pc = "fetch_issue"
    /\ calls' = Append(calls, Call("issues", Null))
    /\ \E ok \in BOOLEAN :
         IF ~ok
         THEN /\ failed_at' = Len(calls) + 1
              /\ Raise("CalledProcessError")
              /\ UNCHANGED <<raw_issue, stdout>>
         ELSE LET out == RunGhPaginated(issue_pages)
              IN  /\ raw_issue' = out
                  /\ UNCHANGED failed_at
                  /\ IF \A i \in 1..Len(out) : out[i].kind = "object"
                     THEN /\ stdout' = Append(stdout,
                                 [pr |-> PrData,
                                  review_comments |-> review_comments,
                                  issue_comments |->
                                      [i \in 1..Len(out) |-> IssueComment(out[i])]])
                          /\ pc' = "done"
                          /\ exc' = exc
                          /\ exit_code' = 0
                     ELSE Raise("TypeError") /\ UNCHANGED stdout
    /\ UNCHANGED <<args, repo, number, transport, thread_pages, cursor, resolved,
                   resolved_ids, review_pages, raw_review, review_comments, issue_pages>>

(***************************************************************************)
(* Specifications.                                                         *)
(***************************************************************************)
\* the process as started: any command line, either transport
Init ==
    /\ pc = "main"
    /\ args \in ArgVectors
    /\ repo = <<>>
    /\ number = <<>>
    /\ transport \in {"gh", "merged"}
    /\ calls = <<>>
    /\ failed_at = Null
    /\ exc = ""
    /\ exit_code = Null
    /\ stdout = <<>>
    /\ thread_pages \in PipelineThreadPages
    /\ cursor = Null
    /\ resolved = {}
    /\ resolved_ids = {}
    /\ \E sz \in Layouts :
         \E which \in BOOLEAN :
            /\ review_pages = ReviewPagesOf(IF which THEN sz ELSE <<1>>)
            /\ issue_pages = IssuePagesOf(IF which THEN <<1>> ELSE sz)
    /\ raw_review = <<>>
    /\ review_comments = <<>>
    /\ raw_issue = <<>>

Next == Main \/ FetchPr \/ FetchThreadsPage \/ FetchReview \/ AssembleReview \/ FetchIssue

Spec == Init /\ [][Next]_vars

\* fetch_resolved_thread_ids entered, over every sequence of thread pages
InitResolver ==
    /\ pc = "threads"
    /\ args = <<RepoOk, <<"4">> >>
    /\ repo = RepoOk
    /\ number = <<"4">>
    /\ transport = "merged"
    /\ calls = <<Call("pulls", Null)>>
    /\ failed_at = Null
    /\ exc = ""
    /\ exit_code = Null
    /\ stdout = <<>>
    /\ thread_pages \in ThreadInputs
    /\ cursor = Null
    /\ resolved = {}
    /\ resolved_ids = {}
    /\ review_pages = <<<<>>>>
    /\ issue_pages = <<<<>>>>
    /\ raw_review = <<>>
    /\ review_comments = <<>>
    /\ raw_issue = <<>>

NextResolver == FetchThreadsPage

SpecResolver == InitResolver /\ [][NextResolver]_vars

\* the assembly entered with a sequence of inline-comment records and a
\* resolved-id set
InitAssemble ==
    /\ pc = "assemble"
    /\ args = <<RepoOk, <<"4">> >>
    /\ repo = RepoOk
    /\ number = <<"4">>
    /\ transport = "merged"
    /\ calls = <<Call("pulls", Null), Call("graphql", Null), Call("comments", Null)>>
    /\ failed_at = Null
    /\ exc = ""
    /\ exit_code = Null
    /\ stdout = <<>>
    /\ \E ids \in SUBSET (1..MaxId) :
         /\ resolved_ids = ids
         /\ resolved = ids
         /\ thread_pages =
              <<MkPage([i \in 1..MaxId |-> MkThread(i \in ids, <<i>>)], FALSE, 1)>>
         /\ raw_review \in (IF ids = {} THEN TreeInputs \cup FlagInputs ELSE FlagInputs)
    /\ cursor = Null
    /\ review_pages = <<raw_review>>
    /\ issue_pages = <<<<>>>>
    /\ review_comments = <<>>
    /\ raw_issue = <<>>

NextAssemble == AssembleReview

SpecAssemble == InitAssemble /\ [][NextAssemble]_vars

(***************************************************************************)
(* The claims.  Inputs and outputs are compared position by position: the  *)
(* k-th inline comment carries body k, so an output entry or reply with    *)
(* body k was made from raw_review[k].                                      *)
(***************************************************************************)
Assembled == pc = "fetch_issue"

TopIdx == {k \in 1..Len(raw_review) : raw_review[k].in_reply_to_id = Null}

ReplyIdx == {k \in 1..Len(raw_review) : raw_review[k].in_reply_to_id # Null}

TopIds == {raw_review[k].id : k \in TopIdx}

OrphanIdx == {k \in ReplyIdx : raw_review[k].in_reply_to_id \notin TopIds}

FirstTop(x) ==
    CHOOSE k \in TopIdx :
        raw_review[k].id = x /\ \A l \in TopIdx : raw_review[l].id = x => k <= l

\* the places <<entry, position>> of the output's replies lists
Slots ==
    UNION {{<<i, j>> : j \in 1..Len(review_comments[i].replies)} :
              i \in 1..Len(review_comments)}

SlotsOf(k) == {s \in Slots : review_comments[s[1]].replies[s[2]].body = k}

\* the input record an output entry was made from
Src(i) == raw_review[review_comments[i].body]

NestedUnderParent(k) ==
    /\ Cardinality(SlotsOf(k)) = 1
    /\ \A s \in SlotsOf(k) :
         /\ review_comments[s[1]].id = raw_review[k].in_reply_to_id
         /\ review_comments[s[1]].replies[s[2]].id = raw_review[k].id

RepliesInInputOrder ==
    \A i \in 1..Len(review_comments) :
        \A j \in 1..Len(review_comments[i].replies) :
            \A l \in 1..Len(review_comments[i].replies) :
                j < l => review_comments[i].replies[j].body
                             < review_comments[i].replies[l].body

\* C1 as stated: every reply record, whatever its in_reply_to_id, appears
\* exactly once in the output, in the replies list of the top-level comment
\* with that id; the replies of one parent keep their input order; no
\* top-level record appears in a replies list.
C1_EveryReplyNested ==
    Assembled =>
        /\ \A k \in ReplyIdx : NestedUnderParent(k)
        /\ RepliesInInputOrder
        /\ \A k \in TopIdx : SlotsOf(k) = {}

\* C1, amended: every reply record whose in_reply_to_id is the id of some
\* top-level record of the input appears exactly once in the output, in the
\* replies list of the entry with that id and in no other; a reply whose
\* in_reply_to_id is no top-level id appears nowhere; the replies of one
\* parent keep their input order; no top-level record appears in a replies
\* list.
C1_ParentedReplyNested ==
    Assembled =>
        /\ \A k \in ReplyIdx \ OrphanIdx : NestedUnderParent(k)
        /\ \A k \in OrphanIdx : SlotsOf(k) = {}
        /\ RepliesInInputOrder
        /\ \A k \in TopIdx : SlotsOf(k) = {}

\* two replies nested under one parent
C1_Witness ==
    /\ Assembled
    /\ \E i \in 1..Len(review_comments) : Len(review_comments[i].replies) >= 2

\* C2: review_comments holds exactly one entry per distinct id among the
\* records with null in_reply_to_id, in first-seen order, so its ids are
\* pairwise distinct; an entry whose id no reply names has replies = <<>>.
C2_OneEntryPerTopLevelId ==
    Assembled =>
        /\ {review_comments[i].id : i \in 1..Len(review_comments)} = TopIds
        /\ \A i \in 1..Len(review_comments) :
             \A j \in 1..Len(review_comments) :
                i < j => /\ review_comments[i].id # review_comments[j].id
                         /\ FirstTop(review_comments[i].id)
                                < FirstTop(review_comments[j].id)
        /\ \A i \in 1..Len(review_comments) :
             (\A k \in ReplyIdx : raw_review[k].in_reply_to_id # review_comments[i].id)
                 => review_comments[i].replies = <<>>

\* a top-level id that occurs twice in the input, two entries in the output,
\* one of them without replies
C2_Witness ==
    /\ Assembled
    /\ Len(review_comments) >= 2
    /\ \E k \in TopIdx : \E l \in TopIdx : k < l /\ raw_review[k].id = raw_review[l].id
    /\ \E i \in 1..Len(review_comments) : review_comments[i].replies = <<>>

\* C4: an entry's resolved flag is true iff its id is in the resolved-id
\* set of the invocation.
C4_ResolvedIffInSet ==
    Assembled =>
        \A i \in 1..Len(review_comments) :
            review_comments[i].resolved <=> review_comments[i].id \in resolved_ids

\* one entry resolved and another not
C4_Witness ==
    /\ Assembled
    /\ \E i \in 1..Len(review_comments) : review_comments[i].resolved
    /\ \E i \in 1..Len(review_comments) : ~review_comments[i].resolved

\* C5: an entry's outdated flag is true iff the position of the record it
\* was made from is null, whatever its resolved flag.
C5_OutdatedIffPositionNull ==
    Assembled =>
        \A i \in 1..Len(review_comments) :
            review_comments[i].outdated <=> Src(i).position = Null

\* an outdated resolved entry beside an outdated unresolved one, one of them
\* with a line
C5_Witness ==
    /\ Assembled
    /\ \E i \in 1..Len(review_comments) :
         /\ review_comments[i].outdated
         /\ review_comments[i].resolved
         /\ Src(i).line # Null
    /\ \E i \in 1..Len(review_comments) :
         review_comments[i].outdated /\ ~review_comments[i].resolved

C10_OrphanDropped ==
    (pc # "assemble" /\ OrphanIdx # {}) =>
        /\ Assembled
        /\ exc = ""
        /\ \A k \in OrphanIdx :
             /\ SlotsOf(k) = {}
             /\ \A i \in 1..Len(review_comments) : review_comments[i].body # k
             /\ review_comments =
                    ReviewComments(Partition(RemoveAt(raw_review, k),
                                             Len(raw_review) - 1), resolved_ids)

\* an orphan reply ahead of a top-level comment that has a reply of its own
C10_Witness ==
    /\ Assembled
    /\ \E k \in OrphanIdx : \E l \in TopIdx : k < l
    /\ \E i \in 1..Len(review_comments) : review_comments[i].replies # <<>>

\* the GraphQL invocations, in order
GraphqlCalls == SelectSeq(calls, LAMBDA c : c.api = "graphql")

\* the first page that reports no next page
LastFetched ==
    CHOOSE k \in 1..Len(thread_pages) :
        /\ ~thread_pages[k].hasNextPage
        /\ \A l \in 1..(k - 1) : thread_pages[l].hasNextPage

FetchedThreads ==
    UNION {{thread_pages[p].nodes[j] : j \in 1..Len(thread_pages[p].nodes)} :
              p \in 1..LastFetched}

\* C3: the walk asks for the first page with a null cursor, passes each
\* page's endCursor as the next cursor, stops at the first page whose
\* hasNextPage is false, and returns exactly the first-comment ids of the
\* threads on the fetched pages that are resolved and have a comment.
C3_ResolverWalk ==
    pc = "fetch_review" =>
        /\ Len(GraphqlCalls) = LastFetched
        /\ GraphqlCalls[1].cursor = Null
        /\ \A k \in 2..LastFetched :
             GraphqlCalls[k].cursor = thread_pages[k - 1].endCursor
        /\ resolved_ids =
             {t.comments[1] : t \in {u \in FetchedThreads :
                                        u.isResolved /\ u.comments # <<>>}}

\* a walk over two pages that met a resolved thread without comments, an
\* unresolved or a resolved thread with one, and returned a non-empty set
C3_Witness ==
    /\ pc = "fetch_review"
    /\ LastFetched = 2
    /\ resolved_ids # {}
    /\ \E t \in FetchedThreads : t.isResolved /\ t.comments = <<>>

\* C6 as stated: what fetch_pr_comments iterates over, for the inline and the
\* issue comments, is the concatenation of the pages' records in page order.
C6_DrainIsConcatenation ==
    /\ pc = "assemble" => raw_review = Flatten(review_pages)
    /\ pc = "done" => raw_issue = Flatten(issue_pages)

\* C7: once a gh invocation has failed, the process has ended with
\* CalledProcessError, no invocation follows the failed one, and nothing has
\* been printed.
C7_NoPartialAggregate ==
    failed_at # Null =>
        /\ pc = "raised"
        /\ exc = "CalledProcessError"
        /\ exit_code = 1
        /\ Len(calls) = failed_at
        /\ stdout = <<>>

\* the GraphQL walk failed on its second page
C7_Witness ==
    /\ failed_at = 3
    /\ calls[failed_at].api = "graphql"
    /\ calls[failed_at].cursor # Null

InputError ==
    IF Len(args) = 1 THEN ~UrlMatch(args[1]).ok
    ELSE IF Len(args) = 2 THEN ~(HasSlash(args[1]) /\ IsInt(args[2]))
    ELSE TRUE

\* C8 as stated: on an input error the process ends with a non-zero exit
\* status and has issued no API call.
C8_InputErrorNoApiCall ==
    (InputError /\ pc \in {"exited", "raised", "done"}) =>
        /\ exit_code = 1
        /\ calls = <<>>

====
